---- MODULE Spec2Model ----
(***************************************************************************)
(* Persistence and change detection of the issue mirror:                   *)
(*   src/src/storage.py  IssueStorage  (documents, .metadata.json, hash)   *)
(*   src/src/tracker.py  ChangeTracker (new / updated / unchanged)         *)
(*   src/src/cli.py      update        (the loop over the repositories)    *)
(***************************************************************************)
EXTENDS Integers, Sequences, FiniteSets, TLC

\* ------------------------------------------------------------------ bounds
MaxNumber == 2      \* issue numbers are 1..MaxNumber
MaxFaults == 1      \* I/O faults the environment injects in one behaviour
MaxList == 2        \* length of the list of current issues handed to the tracker
MaxPart == 3        \* length of the owner and of the name of a repository
MaxPasses == 3      \* update passes in a row that the model counts
MaxDay == 3         \* the calendar days are 1..MaxDay

\* ------------------------------------------------------------ value domains
None == "None"                          \* Python's None
States == {"open", "closed"}
Timestamps == {"2024-01-01T00:00:00", "2024-02-02T00:00:00"}
Titles == {"Bug", "Fix"}
Numbers == 1..MaxNumber

\* Python truthiness of an optional string field
Truthy(v) == v # None /\ v # ""

\* str(int): the decimal digits, most significant first
RECURSIVE Str(_)
Str(n) == IF n < 10 THEN <<n>> ELSE Str(n \div 10) \o <<n % 10>>

\* int(str): the inverse reading of a digit sequence
RECURSIVE ParseInt(_)
ParseInt(s) == IF Len(s) = 0 THEN 0
               ELSE 10 * ParseInt(SubSeq(s, 1, Len(s) - 1)) + s[Len(s)]

\* ------------------------------------------------------------ issue records
\* the record _extract_issue_data builds; the fields that vary in the model
\* are number, state, updated_at and title
Issue(n, s, t, ti) ==
    [number |-> n, title |-> ti, body |-> "text", state |-> s,
     labels |-> <<"ui", "bug">>, author |-> "ann", assignees |-> <<"bob">>,
     created_at |-> "2024-01-01T00:00:00", updated_at |-> t,
     closed_at |-> IF s = "closed" THEN t ELSE None,
     url |-> "https://github.com/a/b/issues", comments |-> <<>>,
     milestone |-> None]

IssueRecords == {Issue(n, s, t, ti) : n \in Numbers, s \in States,
                                      t \in Timestamps, ti \in Titles}

\* the records the storage calls of Spec are given: every issue as it was
\* first fetched, and as it is after it was closed
StoreIssues ==
    {Issue(n, "open", "2024-01-01T00:00:00", "Bug") : n \in Numbers} \cup
    {Issue(n, "closed", "2024-02-02T00:00:00", "Bug") : n \in Numbers}

\* ---------------------------------------------------------------- sorted()
\* the order Python's sorted() gives the names the model uses
NameRank == [ann |-> 1, bob |-> 2, bug |-> 3, ui |-> 4]

RECURSIVE Insert(_, _)
Insert(x, s) == IF Len(s) = 0 THEN <<x>>
                ELSE IF NameRank[x] <= NameRank[Head(s)] THEN <<x>> \o s
                ELSE <<Head(s)>> \o Insert(x, Tail(s))

RECURSIVE Sorted(_)
Sorted(s) == IF Len(s) = 0 THEN <<>> ELSE Insert(Head(s), Sorted(Tail(s)))

\* ----------------------------------------------------------- _calculate_hash
\* a variant that hashes labels and assignees in the order they come in
CalculateHashUnsorted(issue_data) ==
    [number |-> issue_data.number,
     title |-> issue_data.title,
     body |-> issue_data.body,
     state |-> issue_data.state,
     labels |-> issue_data.labels,
     assignees |-> issue_data.assignees,
     updated_at |-> issue_data.updated_at,
     comments |-> [k \in DOMAIN issue_data.comments |->
                     [author |-> issue_data.comments[k].author,
                      body |-> issue_data.comments[k].body,
                      created_at |-> issue_data.comments[k].created_at]]]

\* a variant that leaves the body out of the encoding
CalculateHashWithoutBody(issue_data) ==
    [number |-> issue_data.number,
     title |-> issue_data.title,
     state |-> issue_data.state,
     labels |-> Sorted(issue_data.labels),
     assignees |-> Sorted(issue_data.assignees),
     updated_at |-> issue_data.updated_at,
     comments |-> [k \in DOMAIN issue_data.comments |->
                     [author |-> issue_data.comments[k].author,
                      body |-> issue_data.comments[k].body,
                      created_at |-> issue_data.comments[k].created_at]]]

\* a variant that takes the url into the encoding
CalculateHashWithUrl(issue_data) ==
    [number |-> issue_data.number,
     title |-> issue_data.title,
     body |-> issue_data.body,
     url |-> issue_data.url,
     state |-> issue_data.state,
     labels |-> Sorted(issue_data.labels),
     assignees |-> Sorted(issue_data.assignees),
     updated_at |-> issue_data.updated_at,
     comments |-> [k \in DOMAIN issue_data.comments |->
                     [author |-> issue_data.comments[k].author,
                      body |-> issue_data.comments[k].body,
                      created_at |-> issue_data.comments[k].created_at]]]

\* a variant that leaves the state out of the encoding
CalculateHashWithoutState(issue_data) ==
    [number |-> issue_data.number,
     title |-> issue_data.title,
     body |-> issue_data.body,
     labels |-> Sorted(issue_data.labels),
     assignees |-> Sorted(issue_data.assignees),
     updated_at |-> issue_data.updated_at,
     comments |-> [k \in DOMAIN issue_data.comments |->
                     [author |-> issue_data.comments[k].author,
                      body |-> issue_data.comments[k].body,
                      created_at |-> issue_data.comments[k].created_at]]]

\* the canonical encoding that is hashed; SHA-256 is taken as injective on it
_calculate_hash(issue_data) ==
    [number |-> issue_data.number,
     title |-> issue_data.title,
     body |-> issue_data.body,
     state |-> issue_data.state,
     labels |-> Sorted(issue_data.labels),
     assignees |-> Sorted(issue_data.assignees),
     updated_at |-> issue_data.updated_at,
     comments |-> [k \in DOMAIN issue_data.comments |->
                     [author |-> issue_data.comments[k].author,
                      body |-> issue_data.comments[k].body,
                      created_at |-> issue_data.comments[k].created_at]]]

\* --------------------------------------------------------- _generate_markdown
_generate_markdown(issue_data) ==
    [number |-> issue_data.number,
     title |-> issue_data.title,
     state |-> issue_data.state,
     labels |-> issue_data.labels,
     author |-> issue_data.author,
     created_at |-> issue_data.created_at,
     updated_at |-> issue_data.updated_at,
     assignees |-> issue_data.assignees,
     url |-> issue_data.url,
     closed_at |-> IF Truthy(issue_data.closed_at)
                   THEN <<issue_data.closed_at>> ELSE <<>>,
     milestone |-> IF Truthy(issue_data.milestone)
                   THEN <<issue_data.milestone>> ELSE <<>>,
     heading |-> issue_data.title,
     text |-> IF Truthy(issue_data.body) THEN <<issue_data.body>> ELSE <<>>,
     comments |-> [k \in DOMAIN issue_data.comments |->
                     <<issue_data.comments[k].author,
                       issue_data.comments[k].created_at,
                       issue_data.comments[k].body>>]]

\* ------------------------------------------------------------- repositories
\* a repository name 'owner/repo' is the sequence of its characters
Repos == {<<"a", "/", "b">>}

\* repo_name.replace('/', '-'): the directory of the repository under base_dir
get_repo_dir(repo_name) ==
    [k \in DOMAIN repo_name |-> IF repo_name[k] = "/" THEN "-" ELSE repo_name[k]]

Dirs == {get_repo_dir(r) : r \in Repos}

\* f"issue-{issue_number}.md"
IssueFileName(issue_number) == <<"issue-">> \o Str(issue_number) \o <<".md">>

\* str(file_path): the location save_issue returns
IssuePath(repo_name, issue_number) ==
    <<get_repo_dir(repo_name), IssueFileName(issue_number)>>

\* -------------------------------------------------------------------- files
NoFile == [exists |-> FALSE]
\* a file opened with mode 'w' and not (or not completely) written: json.load
\* raises on it
Truncated == [exists |-> TRUE, complete |-> FALSE]
WholeFile(content) == [exists |-> TRUE, complete |-> TRUE, content |-> content]

\* ------------------------------------------------------------ Python dicts
EmptyDict == [k \in {} |-> None]
DictSet(d, k, v) == [x \in DOMAIN d \cup {k} |-> IF x = k THEN v ELSE d[x]]

\* the parsed .metadata.json: 'flat' holds the top-level keys other than
\* 'filters' and 'issues' (the issue numbers of the legacy format)
JsonObject(flat, hasFilters, filters, hasIssues, issues) ==
    [flat |-> flat, hasFilters |-> hasFilters, filters |-> filters,
     hasIssues |-> hasIssues, issues |-> issues]

EmptyObject == JsonObject(EmptyDict, FALSE, EmptyDict, FALSE, EmptyDict)

\* the Metadata Entry _update_metadata stores for an issue
MetadataEntry(issue_data) ==
    [hash |-> _calculate_hash(issue_data),
     updated_at |-> issue_data.updated_at,
     state |-> issue_data.state]

\* results of calls that may raise
Returned(v) == [raised |-> FALSE, value |-> v]
Raised == [raised |-> TRUE]

\* ------------------------------------------------------------ load_metadata
\* a variant that wraps a legacy document without moving its entries
LoadMetadataNoUpgrade(dir) ==
    IF ~dir.meta.exists
    THEN Returned(JsonObject(EmptyDict, TRUE, EmptyDict, TRUE, EmptyDict))
    ELSE IF ~dir.meta.complete THEN Raised
    ELSE LET metadata == dir.meta.content IN
         IF ~metadata.hasFilters
         THEN Returned(JsonObject(EmptyDict, TRUE, EmptyDict, TRUE, metadata.issues))
         ELSE Returned(metadata)

\* a variant that opens the file without testing that it exists
LoadMetadataMissingRaises(dir) ==
    IF ~dir.meta.exists \/ ~dir.meta.complete THEN Raised
    ELSE LET metadata == dir.meta.content IN
         IF ~metadata.hasFilters
         THEN Returned(JsonObject(EmptyDict, TRUE, EmptyDict, TRUE, metadata.flat))
         ELSE Returned(metadata)

\* a variant that takes a document that does not parse as an empty store
LoadMetadataSalvages(dir) ==
    IF ~dir.meta.exists \/ ~dir.meta.complete
    THEN Returned(JsonObject(EmptyDict, TRUE, EmptyDict, TRUE, EmptyDict))
    ELSE LET metadata == dir.meta.content IN
         IF ~metadata.hasFilters
         THEN Returned(JsonObject(EmptyDict, TRUE, EmptyDict, TRUE, metadata.flat))
         ELSE Returned(metadata)

\* dir is the record [meta, docs] of the repository directory
load_metadata(dir) ==
    IF ~dir.meta.exists
    THEN Returned(JsonObject(EmptyDict, TRUE, EmptyDict, TRUE, EmptyDict))
    ELSE IF ~dir.meta.complete THEN Raised
    ELSE LET metadata == dir.meta.content IN
         IF ~metadata.hasFilters
         THEN Returned(JsonObject(EmptyDict, TRUE, EmptyDict, TRUE, metadata.flat))
         ELSE Returned(metadata)

\* metadata.get('issues', {})
IssuesOf(metadata) == IF metadata.hasIssues THEN metadata.issues ELSE EmptyDict

\* metadata.get('filters', {})
FiltersOf(metadata) == IF metadata.hasFilters THEN metadata.filters ELSE EmptyDict

\* load_filters
load_filters(dir) ==
    LET m == load_metadata(dir) IN
    IF m.raised THEN Raised ELSE Returned(FiltersOf(m.value))

\* ---------------------------------------------------------- _update_metadata
\* a variant that starts from an empty 'issues' mapping instead of the loaded one
UpdatedMetadataFresh(dir, issue_data) ==
    LET loaded == IF dir.meta.exists THEN dir.meta.content ELSE EmptyObject
        filters == IF loaded.hasFilters THEN loaded.filters ELSE EmptyDict
    IN JsonObject(loaded.flat, TRUE, filters, TRUE,
                  DictSet(EmptyDict, Str(issue_data.number), MetadataEntry(issue_data)))

\* a variant that writes an empty 'filters' mapping instead of the loaded one
UpdatedMetadataDropsFilters(dir, issue_data) ==
    LET loaded == IF dir.meta.exists THEN dir.meta.content ELSE EmptyObject
        issues == IF loaded.hasIssues THEN loaded.issues ELSE EmptyDict
    IN JsonObject(loaded.flat, TRUE, EmptyDict, TRUE,
                  DictSet(issues, Str(issue_data.number), MetadataEntry(issue_data)))

\* lines 128-149: the document that _update_metadata is about to write
UpdatedMetadata(dir, issue_data) ==
    LET loaded == IF dir.meta.exists THEN dir.meta.content ELSE EmptyObject
        filters == IF loaded.hasFilters THEN loaded.filters ELSE EmptyDict
        issues == IF loaded.hasIssues THEN loaded.issues ELSE EmptyDict
    IN JsonObject(loaded.flat, TRUE, filters, TRUE,
                  DictSet(issues, Str(issue_data.number), MetadataEntry(issue_data)))

\* the I/O faults of one call: none, open() of the document fails, the write
\* of the document fails, open() of the metadata file fails, json.dump fails
Faults == {"none", "doc_open", "doc_write", "meta_open", "meta_write"}

\* lines 125-153 on the directory, with the fault of this call
_update_metadata(dir, issue_data, fault) ==
    IF dir.meta.exists /\ ~dir.meta.complete THEN [dir |-> dir, raised |-> TRUE]
    ELSE IF fault = "meta_open" THEN [dir |-> dir, raised |-> TRUE]
    ELSE IF fault = "meta_write"
         THEN [dir |-> [dir EXCEPT !.meta = Truncated], raised |-> TRUE]
    ELSE [dir |-> [dir EXCEPT !.meta = WholeFile(UpdatedMetadata(dir, issue_data))],
          raised |-> FALSE]

\* --------------------------------------------------------------- save_issue
\* a variant that does not overwrite an existing document but writes a copy
SaveIssueCopy(dir, issue_data, fault) ==
    LET name == IssueFileName(issue_data.number)
        target == IF name \in DOMAIN dir.docs THEN name \o <<".1">> ELSE name
    IN IF fault = "doc_open" THEN [dir |-> dir, raised |-> TRUE]
    ELSE IF fault = "doc_write"
         THEN [dir |-> [dir EXCEPT !.docs = DictSet(@, target, Truncated)],
               raised |-> TRUE]
    ELSE _update_metadata(
             [dir EXCEPT !.docs = DictSet(@, target,
                                     WholeFile(_generate_markdown(issue_data)))],
             issue_data, fault)

\* lines 48-62 on the directory, with the fault of this call
save_issue(dir, issue_data, fault) ==
    LET name == IssueFileName(issue_data.number) IN
    IF fault = "doc_open" THEN [dir |-> dir, raised |-> TRUE]
    ELSE IF fault = "doc_write"
         THEN [dir |-> [dir EXCEPT !.docs = DictSet(@, name, Truncated)],
               raised |-> TRUE]
    ELSE _update_metadata(
             [dir EXCEPT !.docs = DictSet(@, name,
                                     WholeFile(_generate_markdown(issue_data)))],
             issue_data, fault)

\* -------------------------------------------------------------- save_filters
\* a variant that adds the new keys to the stored configuration
SaveFiltersMerged(dir, filters, fault) ==
    LET m == load_metadata(dir) IN
    IF m.raised \/ fault # "none" THEN [dir |-> dir, raised |-> TRUE]
    ELSE [dir |-> [dir EXCEPT !.meta =
                     WholeFile([m.value EXCEPT
                        !.hasFilters = TRUE,
                        !.filters = [k \in DOMAIN FiltersOf(m.value) \cup DOMAIN filters |->
                                        IF k \in DOMAIN filters THEN filters[k]
                                        ELSE FiltersOf(m.value)[k]]])],
          raised |-> FALSE]

save_filters(dir, filters, fault) ==
    LET m == load_metadata(dir) IN
    IF m.raised THEN [dir |-> dir, raised |-> TRUE]
    ELSE IF fault = "meta_open" THEN [dir |-> dir, raised |-> TRUE]
    ELSE IF fault = "meta_write"
         THEN [dir |-> [dir EXCEPT !.meta = Truncated], raised |-> TRUE]
    ELSE [dir |-> [dir EXCEPT !.meta =
                     WholeFile([m.value EXCEPT !.hasFilters = TRUE,
                                               !.filters = filters])],
          raised |-> FALSE]

\* ------------------------------------------------------------- issue_exists
issue_exists(dir, issue_number) == IssueFileName(issue_number) \in DOMAIN dir.docs

\* ---------------------------------------------------- get_all_issue_numbers
\* int(file_path.stem.split('-')[1]) of every file that glob('issue-*.md')
\* yields: a name that does not end in .md is not visited
get_all_issue_numbers(dir) ==
    {ParseInt(SubSeq(f, 2, Len(f) - 1)) :
         f \in {g \in DOMAIN dir.docs : g[1] = "issue-" /\ g[Len(g)] = ".md"}}

\* ===================================================== tracker.py operators
\* a variant that reports the timestamp only when the state did not change
\* (elif instead of the second if)
DetectIssueChangesElif(current_issue, stored_metadata) ==
    IF stored_metadata.state # current_issue.state
    THEN << <<"State changed from '", stored_metadata.state,
              "' to '", current_issue.state, "'">> >>
    ELSE IF stored_metadata.updated_at # current_issue.updated_at
    THEN << <<"Updated at ", current_issue.updated_at>> >>
    ELSE << <<"Content modified">> >>

\* lines 81-99: the change descriptors of an updated issue; an f-string is the
\* sequence of its literal and formatted pieces
_detect_issue_changes(current_issue, stored_metadata) ==
    LET c1 == IF stored_metadata.state # current_issue.state
              THEN << <<"State changed from '", stored_metadata.state,
                        "' to '", current_issue.state, "'">> >>
              ELSE <<>>
        c2 == IF stored_metadata.updated_at # current_issue.updated_at
              THEN c1 \o << <<"Updated at ", current_issue.updated_at>> >>
              ELSE c1
    IN IF c2 = <<>> THEN << <<"Content modified">> >> ELSE c2

NoChanges == [new |-> <<>>, updated |-> <<>>, unchanged |-> <<>>]

\* a variant that compares the stored timestamp and state instead of the hash
ClassifyIssueByTimestamp(stored_issues, issue, changes) ==
    LET issue_number == Str(issue.number)
    IN IF issue_number \notin DOMAIN stored_issues
       THEN [changes EXCEPT !.new = Append(@, issue)]
       ELSE IF \/ issue.updated_at # stored_issues[issue_number].updated_at
               \/ issue.state # stored_issues[issue_number].state
            THEN [changes EXCEPT !.updated = Append(@,
                     [issue |-> issue,
                      changes |-> _detect_issue_changes(
                                      issue, stored_issues[issue_number])])]
            ELSE [changes EXCEPT !.unchanged = Append(@, ParseInt(issue_number))]

\* a variant that does not record the unchanged issues
ClassifyIssueDropUnchanged(stored_issues, issue, changes) ==
    LET issue_number == Str(issue.number)
        current_hash == _calculate_hash(issue)
    IN IF issue_number \notin DOMAIN stored_issues
       THEN [changes EXCEPT !.new = Append(@, issue)]
       ELSE IF current_hash # stored_issues[issue_number].hash
            THEN [changes EXCEPT !.updated = Append(@,
                     [issue |-> issue,
                      changes |-> _detect_issue_changes(
                                      issue, stored_issues[issue_number])])]
            ELSE changes

\* lines 44-65: one iteration of the loop over current_issues
ClassifyIssue(stored_issues, issue, changes) ==
    LET issue_number == Str(issue.number)
        current_hash == _calculate_hash(issue)
    IN IF issue_number \notin DOMAIN stored_issues
       THEN [changes EXCEPT !.new = Append(@, issue)]
       ELSE IF current_hash # stored_issues[issue_number].hash
            THEN [changes EXCEPT !.updated = Append(@,
                     [issue |-> issue,
                      changes |-> _detect_issue_changes(
                                      issue, stored_issues[issue_number])])]
            ELSE [changes EXCEPT !.unchanged = Append(@, ParseInt(issue_number))]

RECURSIVE ClassifyAll(_, _, _)
ClassifyAll(stored_issues, current_issues, changes) ==
    IF current_issues = <<>> THEN changes
    ELSE ClassifyAll(stored_issues, Tail(current_issues),
                     ClassifyIssue(stored_issues, Head(current_issues), changes))

\* lines 33-67
detect_changes(dir, current_issues) ==
    LET metadata == load_metadata(dir) IN
    IF metadata.raised THEN Raised
    ELSE Returned(ClassifyAll(IssuesOf(metadata.value), current_issues, NoChanges))

\* ==================================================================== state
VARIABLES fs,       \* base_dir: directory name -> [meta: file, docs: name -> file]
          last,     \* the call that completed last, with its outcome
          faults,   \* I/O faults injected so far
          calls     \* per writer: the call in progress, statement by statement

vars == <<fs, last, faults, calls>>

\* the processes that may write to the store
Writers == {"w1", "w2"}

\* returned: <<argument>> of the writer's last call if that call returned;
\* overlapped: another writer's call was in progress during that call
Idle == [pc |-> "idle", op |-> "none", repo |-> <<>>, arg |-> None,
         metadata |-> EmptyObject, before |-> NoFile,
         returned |-> <<>>, overlapped |-> FALSE]

\* Filter Configurations the caller may store
FilterConfigs == {EmptyDict, [state |-> "open"],
                  [author |-> "ann", state |-> "closed"]}

\* a store an older release wrote: the flat metadata document and the
\* documents of the issues it had saved
LegacyIssue(n) == Issue(n, "open", "2024-01-01T00:00:00", "Bug")

LegacyDir(S) ==
    [meta |-> WholeFile(JsonObject([k \in {Str(n) : n \in S} |->
                                       MetadataEntry(LegacyIssue(ParseInt(k)))],
                                   FALSE, EmptyDict, FALSE, EmptyDict)),
     docs |-> [f \in {IssueFileName(n) : n \in S} |->
                 WholeFile(_generate_markdown(
                     LegacyIssue(ParseInt(SubSeq(f, 2, Len(f) - 1)))))]]

EmptyDir == [meta |-> NoFile, docs |-> EmptyDict]

InitialDirs == {EmptyDir, LegacyDir(Numbers)}

NoCall == [op |-> "none", repo |-> <<>>, arg |-> None, raised |-> FALSE,
           result |-> None, again |-> FALSE]

Init ==
    /\ fs \in [Dirs -> InitialDirs]
    /\ last = NoCall
    /\ faults = 0
    /\ calls = [w \in Writers |-> Idle]

\* the call repeats the previous call, which returned
Repeats(op, repo, arg) ==
    last.op = op /\ last.repo = repo /\ ~last.raised /\ last.arg = arg

\* -------------------------------------------------------------------- calls
SaveIssue(repo, issue, fault) ==
    LET d == get_repo_dir(repo)
        r == save_issue(fs[d], issue, fault)
    IN /\ fault # "none" => faults < MaxFaults
       /\ fs' = [fs EXCEPT ![d] = r.dir]
       /\ faults' = IF fault = "none" THEN faults ELSE faults + 1
       /\ UNCHANGED calls
       /\ last' = [op |-> "save_issue", repo |-> repo, arg |-> issue,
                   raised |-> r.raised,
                   result |-> IF r.raised THEN None
                              ELSE IssuePath(repo, issue.number),
                   again |-> Repeats("save_issue", repo, issue)]

SaveFilters(repo, filters, fault) ==
    LET d == get_repo_dir(repo)
        r == save_filters(fs[d], filters, fault)
    IN /\ fault \in {"none", "meta_open", "meta_write"}
       /\ fault # "none" => faults < MaxFaults
       /\ fs' = [fs EXCEPT ![d] = r.dir]
       /\ faults' = IF fault = "none" THEN faults ELSE faults + 1
       /\ UNCHANGED calls
       /\ last' = [op |-> "save_filters", repo |-> repo, arg |-> filters,
                   raised |-> r.raised, result |-> None,
                   again |-> Repeats("save_filters", repo, filters)]

LoadMetadata(repo) ==
    LET r == load_metadata(fs[get_repo_dir(repo)])
    IN /\ last' = [op |-> "load_metadata", repo |-> repo, arg |-> None,
                   raised |-> r.raised,
                   result |-> IF r.raised THEN None ELSE r.value,
                   again |-> FALSE]
       /\ UNCHANGED <<fs, faults, calls>>

LoadFilters(repo) ==
    LET r == load_filters(fs[get_repo_dir(repo)])
    IN /\ last' = [op |-> "load_filters", repo |-> repo, arg |-> None,
                   raised |-> r.raised,
                   result |-> IF r.raised THEN None ELSE r.value,
                   again |-> FALSE]
       /\ UNCHANGED <<fs, faults, calls>>

Next ==
    \/ \E repo \in Repos, issue \in StoreIssues, fault \in Faults :
          SaveIssue(repo, issue, fault)
    \/ \E repo \in Repos, filters \in FilterConfigs, fault \in Faults :
          SaveFilters(repo, filters, fault)
    \/ \E repo \in Repos : LoadMetadata(repo)
    \/ \E repo \in Repos : LoadFilters(repo)

Spec == Init /\ [][Next]_vars

\* ============================================ the writes, statement by statement
\* the call of writer w ends; its outcome becomes the last completed call
Finish(w, raised) ==
    /\ calls' = [calls EXCEPT ![w] =
                    [Idle EXCEPT !.returned = IF raised THEN <<>> ELSE <<calls[w].arg>>,
                                 !.overlapped = calls[w].overlapped]]
    /\ last' = [op |-> calls[w].op, repo |-> calls[w].repo, arg |-> calls[w].arg,
                raised |-> raised,
                result |-> IF ~raised /\ calls[w].op = "save_issue"
                           THEN IssuePath(calls[w].repo, calls[w].arg.number)
                           ELSE None,
                again |-> FALSE]

\* storage.py 48-53: save_issue is entered
BeginSaveIssue(w, repo, issue) ==
    /\ calls[w].pc = "idle"
    /\ calls' = [calls EXCEPT ![w] = [Idle EXCEPT !.pc = "open_doc",
                    !.op = "save_issue", !.repo = repo, !.arg = issue]]
    /\ UNCHANGED <<fs, last, faults>>

\* storage.py 56: open(file_path, 'w') creates or truncates the document
OpenDocument(w) ==
    LET d == get_repo_dir(calls[w].repo)
        name == IssueFileName(calls[w].arg.number)
    IN /\ calls[w].pc = "open_doc"
       /\ fs' = [fs EXCEPT ![d].docs = DictSet(@, name, Truncated)]
       /\ calls' = [calls EXCEPT ![w].pc = "write_doc"]
       /\ UNCHANGED <<last, faults>>

\* storage.py 57: the content is written and the file closed
WriteDocument(w) ==
    LET d == get_repo_dir(calls[w].repo)
        name == IssueFileName(calls[w].arg.number)
    IN /\ calls[w].pc = "write_doc"
       /\ fs' = [fs EXCEPT ![d].docs =
                    DictSet(@, name, WholeFile(_generate_markdown(calls[w].arg)))]
       /\ calls' = [calls EXCEPT ![w].pc = "load_meta"]
       /\ UNCHANGED <<last, faults>>

\* storage.py 128-149: _update_metadata loads the document and sets the entry
LoadForUpdate(w) ==
    LET dir == fs[get_repo_dir(calls[w].repo)]
    IN /\ calls[w].pc = "load_meta"
       /\ IF dir.meta.exists /\ ~dir.meta.complete
          THEN Finish(w, TRUE)
          ELSE /\ calls' = [calls EXCEPT ![w].pc = "open_meta",
                               ![w].metadata = UpdatedMetadata(dir, calls[w].arg)]
               /\ UNCHANGED last
       /\ UNCHANGED <<fs, faults>>

\* storage.py 224-231: save_filters loads the metadata and sets the filters
BeginSaveFilters(w, repo, filters) ==
    LET m == load_metadata(fs[get_repo_dir(repo)])
    IN /\ calls[w].pc = "idle"
       /\ IF m.raised
          THEN /\ last' = [op |-> "save_filters", repo |-> repo, arg |-> filters,
                           raised |-> TRUE, result |-> None, again |-> FALSE]
               /\ calls' = [calls EXCEPT ![w].returned = <<>>]
          ELSE /\ calls' = [calls EXCEPT ![w] = [Idle EXCEPT !.pc = "open_meta",
                               !.op = "save_filters", !.repo = repo, !.arg = filters,
                               !.metadata = [m.value EXCEPT !.hasFilters = TRUE,
                                                            !.filters = filters]]]
               /\ UNCHANGED last
       /\ UNCHANGED <<fs, faults>>

\* storage.py 152 and 234: open(metadata_file, 'w') truncates the document
OpenMetadata(w) ==
    LET d == get_repo_dir(calls[w].repo)
    IN /\ calls[w].pc = "open_meta"
       /\ fs' = [fs EXCEPT ![d].meta = Truncated]
       /\ calls' = [calls EXCEPT ![w].pc = "dump_meta", ![w].before = fs[d].meta]
       /\ UNCHANGED <<last, faults>>

\* storage.py 153 and 235: json.dump writes the document, the file is closed
\* and the call returns
DumpMetadata(w) ==
    LET d == get_repo_dir(calls[w].repo)
    IN /\ calls[w].pc = "dump_meta"
       /\ fs' = [fs EXCEPT ![d].meta = WholeFile(calls[w].metadata)]
       /\ Finish(w, FALSE)
       /\ UNCHANGED faults

\* the statement the call is at raises (disk full, permission denied) or the
\* process is stopped: the call ends where it is
Interrupt(w) ==
    /\ calls[w].pc # "idle"
    /\ faults < MaxFaults
    /\ faults' = faults + 1
    /\ Finish(w, TRUE)
    /\ UNCHANGED fs

WriterStep(w) ==
    \/ \E repo \in Repos, issue \in StoreIssues : BeginSaveIssue(w, repo, issue)
    \/ OpenDocument(w)
    \/ WriteDocument(w)
    \/ LoadForUpdate(w)
    \/ \E repo \in Repos, filters \in FilterConfigs : BeginSaveFilters(w, repo, filters)
    \/ OpenMetadata(w)
    \/ DumpMetadata(w)
    \/ Interrupt(w)

\* one writer at a time, as the store assumes
NextWrite == WriterStep("w1")

SpecWrite == Init /\ [][NextWrite]_vars

\* ================================================== the tracker on a store
\* the directories the tracker is run on: an initial directory, the directory
\* after the first successful save_issue, and the directory a failed json.dump
\* leaves behind
TrackerDirs ==
    InitialDirs
    \cup {save_issue(d, i, "none").dir : d \in InitialDirs, i \in IssueRecords}
    \cup {[EmptyDir EXCEPT !.meta = Truncated]}

\* lists of current issues with pairwise distinct numbers
RECURSIVE IssueLists(_)
IssueLists(n) ==
    IF n = 0 THEN {<<>>}
    ELSE IssueLists(n - 1) \cup
         {Append(l, i) : l \in {x \in IssueLists(n - 1) : Len(x) = n - 1},
                         i \in IssueRecords}

DistinctNumbers(l) ==
    \A j, k \in DOMAIN l : j # k => l[j].number # l[k].number

CurrentIssueLists == {l \in IssueLists(MaxList) : DistinctNumbers(l)}

InitTracker ==
    /\ fs \in [Dirs -> TrackerDirs]
    /\ last = NoCall
    /\ faults = 0
    /\ calls = [w \in Writers |-> Idle]

DetectChanges(repo, current_issues) ==
    LET r == detect_changes(fs[get_repo_dir(repo)], current_issues)
    IN /\ last.op = "none"
       /\ last' = [op |-> "detect_changes", repo |-> repo,
                   arg |-> current_issues, raised |-> r.raised,
                   result |-> IF r.raised THEN None ELSE r.value,
                   again |-> FALSE]
       /\ UNCHANGED <<fs, faults, calls>>

NextTracker ==
    \E repo \in Repos, current_issues \in CurrentIssueLists :
        DetectChanges(repo, current_issues)

SpecTracker == InitTracker /\ [][NextTracker]_vars

\* ================================================================== claims
InSeq(x, s) == \E k \in DOMAIN s : s[k] = x

\* how often the issue number n occurs in the buckets of a classification
InNew(n, c) == Cardinality({k \in DOMAIN c.new : c.new[k].number = n})
InUpdated(n, c) == Cardinality({k \in DOMAIN c.updated : c.updated[k].issue.number = n})
InUnchanged(n, c) == Cardinality({k \in DOMAIN c.unchanged : c.unchanged[k] = n})

Detected == last.op = "detect_changes" /\ ~last.raised

\* the issues of the store as load_metadata returns them
LoadedIssues(repo) == IssuesOf(load_metadata(fs[get_repo_dir(repo)]).value)

\* C1: every current issue of a detect_changes pass is in exactly one of the
\* buckets new, updated, unchanged, and the bucket sizes add up to the number
\* of current issues
C1_ClassificationTotal ==
    Detected =>
        /\ Len(last.result.new) + Len(last.result.updated)
             + Len(last.result.unchanged) = Len(last.arg)
        /\ \A k \in DOMAIN last.arg :
              InNew(last.arg[k].number, last.result)
                + InUpdated(last.arg[k].number, last.result)
                + InUnchanged(last.arg[k].number, last.result) = 1

C1_Witness ==
    /\ Detected
    /\ Len(last.arg) = 2
    /\ Len(last.result.updated) = 1
    /\ Len(last.result.unchanged) = 1

\* C2: a current issue is new iff the loaded store has no entry for its
\* number, unchanged iff an entry exists and the fingerprints are equal,
\* updated iff an entry exists and the fingerprints differ
C2_ClassificationRule ==
    Detected =>
        \A k \in DOMAIN last.arg :
            LET issue == last.arg[k]
                stored == LoadedIssues(last.repo)
                key == Str(issue.number)
                exists == key \in DOMAIN stored
            IN /\ InSeq(issue, last.result.new) <=> ~exists
               /\ InSeq(issue.number, last.result.unchanged) <=>
                     (exists /\ _calculate_hash(issue) = stored[key].hash)
               /\ (\E j \in DOMAIN last.result.updated :
                       last.result.updated[j].issue = issue) <=>
                     (exists /\ _calculate_hash(issue) # stored[key].hash)

\* an issue whose title changed while state and timestamp stayed is updated
C2_Witness ==
    /\ Detected
    /\ \E j \in DOMAIN last.result.updated :
          LET u == last.result.updated[j]
              e == LoadedIssues(last.repo)[Str(u.issue.number)]
          IN e.state = u.issue.state /\ e.updated_at = u.issue.updated_at
    /\ last.result.new # <<>>

StateDescriptor(old_state, new_state) ==
    <<"State changed from '", old_state, "' to '", new_state, "'">>
TimestampDescriptor(updated_at) == <<"Updated at ", updated_at>>
ContentDescriptor == <<"Content modified">>

\* C3: the change descriptors of an updated issue are never empty; the state
\* descriptor is there exactly when the stored state differs, the timestamp
\* descriptor exactly when the stored updated_at differs (state first), and
\* the generic descriptor exactly when neither differs
C3_ChangeDescriptors ==
    Detected =>
        \A j \in DOMAIN last.result.updated :
            LET u == last.result.updated[j]
                e == LoadedIssues(last.repo)[Str(u.issue.number)]
                sd == StateDescriptor(e.state, u.issue.state)
                td == TimestampDescriptor(u.issue.updated_at)
                stateDiffers == e.state # u.issue.state
                timeDiffers == e.updated_at # u.issue.updated_at
            IN /\ u.changes # <<>>
               /\ InSeq(sd, u.changes) <=> stateDiffers
               /\ InSeq(td, u.changes) <=> timeDiffers
               /\ (stateDiffers /\ timeDiffers) => u.changes = <<sd, td>>
               /\ InSeq(ContentDescriptor, u.changes) <=>
                     (~stateDiffers /\ ~timeDiffers)
               /\ Len(u.changes) = (IF stateDiffers THEN 1 ELSE 0)
                     + (IF timeDiffers THEN 1 ELSE 0)
                     + (IF ~stateDiffers /\ ~timeDiffers THEN 1 ELSE 0)

\* an updated issue with both the state and the timestamp descriptor
C3_Witness ==
    /\ Detected
    /\ \E j \in DOMAIN last.result.updated :
          Len(last.result.updated[j].changes) = 2

\* ------------------------------------------------------ storage.py claims
DirOf(repo) == fs[get_repo_dir(repo)]
DirAfter(repo) == fs'[get_repo_dir(repo)]

\* the step is a save_issue call that returned
SaveIssueReturns == last'.op = "save_issue" /\ ~last'.raised
\* the step is a save_issue call that raised
SaveIssueRaises == last'.op = "save_issue" /\ last'.raised

\* the metadata document has the {filters, issues} wrapper
CurrentFormat(dir) ==
    dir.meta.exists /\ dir.meta.complete /\ dir.meta.content.hasFilters
       /\ dir.meta.content.hasIssues

\* the metadata document is a legacy flat document
LegacyFormat(dir) ==
    dir.meta.exists /\ dir.meta.complete /\ ~dir.meta.content.hasFilters
       /\ ~dir.meta.content.hasIssues

\* what the claims expect as the Metadata Entry of a record
ExpectedEntry(issue) ==
    [hash |-> _calculate_hash(issue), state |-> issue.state,
     updated_at |-> issue.updated_at]

\* after the step, the loaded store has the entry of the saved record, and
\* every other entry that was loaded before the step
EntriesKept(before, after, issue) ==
    LET key == Str(issue.number)
        pre == IssuesOf(load_metadata(before).value)
        post == IssuesOf(load_metadata(after).value)
    IN /\ ~load_metadata(after).raised
       /\ key \in DOMAIN post /\ post[key] = ExpectedEntry(issue)
       /\ DOMAIN post = DOMAIN pre \cup {key}
       /\ \A k \in DOMAIN pre \ {key} : post[k] = pre[k]

\* C4: on a store in the {filters, issues} format, a save_issue that returns
\* leaves the entry of the saved issue equal to {hash, state, updated_at} of
\* the record, every other entry as it was, and the filters as they were
C4_SaveIssueFrame ==
    [][(SaveIssueReturns /\ CurrentFormat(DirOf(last'.repo))) =>
          /\ EntriesKept(DirOf(last'.repo), DirAfter(last'.repo), last'.arg)
          /\ FiltersOf(load_metadata(DirAfter(last'.repo)).value)
               = FiltersOf(load_metadata(DirOf(last'.repo)).value)]_vars

\* a save_issue returned on a wrapped document that holds another entry and
\* a non-empty Filter Configuration
C4_Witness ==
    /\ last.op = "save_issue" /\ ~last.raised
    /\ CurrentFormat(DirOf(last.repo))
    /\ DirOf(last.repo).meta.content.flat = EmptyDict
    /\ Cardinality(DOMAIN DirOf(last.repo).meta.content.issues) >= 2
    /\ DirOf(last.repo).meta.content.filters # EmptyDict

\* C5: the first save_issue on a legacy flat document keeps every legacy
\* entry except the one of the issue just written
C5_LegacyEntriesKept ==
    [][(SaveIssueReturns /\ LegacyFormat(DirOf(last'.repo))) =>
          EntriesKept(DirOf(last'.repo), DirAfter(last'.repo), last'.arg)]_vars

\* C6: load_metadata on a legacy flat document returns {filters: {},
\* issues: E} with E all entries of the document, and leaves the file as it is
C6_LegacyLoad ==
    [][(last'.op = "load_metadata" /\ LegacyFormat(DirOf(last'.repo))) =>
          /\ ~last'.raised
          /\ last'.result.hasFilters /\ last'.result.filters = EmptyDict
          /\ last'.result.hasIssues
          /\ last'.result.issues = DirOf(last'.repo).meta.content.flat
          /\ last'.result.flat = EmptyDict
          /\ fs' = fs]_vars

C6_Witness ==
    /\ last.op = "load_metadata" /\ ~last.raised
    /\ LegacyFormat(DirOf(last.repo))
    /\ Cardinality(DOMAIN last.result.issues) = MaxNumber

\* the loaded store has a Metadata Entry for the number
HasEntry(dir, n) ==
    /\ ~load_metadata(dir).raised
    /\ Str(n) \in DOMAIN IssuesOf(load_metadata(dir).value)

\* C7: a Metadata Entry exists for an issue number iff its document exists
C7_EntryIffDocument ==
    \A repo \in Repos, n \in Numbers :
        HasEntry(DirOf(repo), n) <=> issue_exists(DirOf(repo), n)

\* the document of the issue, or NoFile
DocumentOf(dir, n) ==
    IF issue_exists(dir, n) THEN dir.docs[IssueFileName(n)] ELSE NoFile

\* C8: a save_issue that raises leaves the document and the entry of the
\* issue both as they were, or both as the new record
C8_NotHalfApplied ==
    [][SaveIssueRaises =>
          LET before == DirOf(last'.repo)
              after == DirAfter(last'.repo)
              n == last'.arg.number
          IN \/ /\ DocumentOf(after, n) = DocumentOf(before, n)
                /\ after.meta = before.meta
             \/ /\ DocumentOf(after, n) = WholeFile(_generate_markdown(last'.arg))
                /\ HasEntry(after, n)
                /\ IssuesOf(load_metadata(after).value)[Str(n)]
                      = ExpectedEntry(last'.arg)]_vars

\* C10: a second save_issue of the same record returns the same location,
\* leaves the documents and the loaded metadata as the first call left them,
\* and detect_changes then classifies the record as unchanged
C10_SaveIssueIdempotent ==
    [][(/\ last.op = "save_issue" /\ ~last.raised
        /\ SaveIssueReturns
        /\ last'.repo = last.repo /\ last'.arg = last.arg) =>
          /\ last'.result = last.result
          /\ DirAfter(last.repo).docs = DirOf(last.repo).docs
          /\ load_metadata(DirAfter(last.repo)) = load_metadata(DirOf(last.repo))
          /\ get_all_issue_numbers(DirAfter(last.repo))
               = get_all_issue_numbers(DirOf(last.repo))
          /\ detect_changes(DirAfter(last.repo), <<last.arg>>)
               = Returned([new |-> <<>>, updated |-> <<>>,
                           unchanged |-> <<last.arg.number>>])]_vars

\* the same record was saved twice in a row
C10_Witness ==
    last.op = "save_issue" /\ ~last.raised /\ last.again

\* C9: while the metadata document is being written, and after an interrupted
\* write, a reader finds the complete prior or the complete new document,
\* never an empty or partly written one
C9_AtomicMetadataWrite ==
    /\ \A w \in Writers :
          calls[w].pc = "dump_meta" =>
             fs[get_repo_dir(calls[w].repo)].meta
                \in {calls[w].before, WholeFile(calls[w].metadata)}
    /\ \A d \in Dirs : fs[d].meta.exists => fs[d].meta.complete

\* ====================================== repositories that share a base_dir
\* owners and names: letters and inner hyphens, as GitHub allows them
RECURSIVE CharSeqs(_)
CharSeqs(n) ==
    IF n = 0 THEN {<<>>}
    ELSE CharSeqs(n - 1) \cup
         {Append(x, c) : x \in {y \in CharSeqs(n - 1) : Len(y) = n - 1},
                         c \in {"a", "-"}}

Parts == {x \in CharSeqs(MaxPart) : Len(x) > 0 /\ x[1] # "-" /\ x[Len(x)] # "-"}

\* 'owner/repo'
RepoNames == {o \o <<"/">> \o n : o \in Parts, n \in Parts}

\* base_dir after one repository was fetched and saved by run
InitDirs ==
    /\ \E r \in RepoNames, i \in StoreIssues :
          fs = [d \in {get_repo_dir(x) : x \in RepoNames} |->
                  IF d = get_repo_dir(r) THEN save_issue(EmptyDir, i, "none").dir
                  ELSE EmptyDir]
    /\ last = NoCall
    /\ faults = 0
    /\ calls = [w \in Writers |-> Idle]

\* cli.py 199-204: the issues of the next repository are saved
SaveNextRepo(repo, issue) ==
    /\ last.op = "none"
    /\ SaveIssue(repo, issue, "none")

NextDirs == \E repo \in RepoNames, issue \in StoreIssues : SaveNextRepo(repo, issue)

SpecDirs == InitDirs /\ [][NextDirs]_vars

\* C11: a save_issue for one repository leaves the directory of every other
\* repository as it was (different repositories have different directories)
C11_ReposDisjoint ==
    [][last'.op = "save_issue" =>
          \A r \in RepoNames \ {last'.repo} :
              /\ get_repo_dir(r) # get_repo_dir(last'.repo)
              /\ fs'[get_repo_dir(r)] = fs[get_repo_dir(r)]]_vars

\* ===================================================== cli.py update passes
\* cli.py 301-305: the loop that saves issues_to_save; the call for the
\* issue at position failAt gets the fault, the earlier ones succeed
RECURSIVE SaveAll(_, _, _, _, _)
SaveAll(dir, issues, k, failAt, fault) ==
    IF k > Len(issues) THEN [dir |-> dir, raised |-> FALSE]
    ELSE LET r == save_issue(dir, issues[k], IF k = failAt THEN fault ELSE "none")
         IN IF r.raised THEN r
            ELSE SaveAll(r.dir, issues, k + 1, failAt, fault)

\* [u['issue'] for u in changes['updated']]
UpdatedIssues(changes) == [k \in DOMAIN changes.updated |-> changes.updated[k].issue]

\* a variant that takes only the updated issues as issues_to_save
IssuesToSaveUpdatedOnly(changes) == UpdatedIssues(changes)

\* cli.py 299
IssuesToSave(changes) == changes.new \o UpdatedIssues(changes)

\* a variant whose except branch leaves the entry assigned before the saving
UpdateRepoKeepsChanges(dir, fetched, failAt, fault) ==
    LET filters == load_filters(dir) IN
    IF filters.raised \/ fetched.raised
    THEN [dir |-> dir, changes |-> NoChanges, failed |-> TRUE]
    ELSE LET changes == detect_changes(dir, fetched.value).value
             saved == SaveAll(dir, IssuesToSave(changes), 1, failAt, fault)
         IN [dir |-> saved.dir, changes |-> changes, failed |-> saved.raised]

\* cli.py 266-319: the body of the loop for one repository. fetched is what
\* fetch_issues gives (a list, or it raises); the result is the directory
\* afterwards, the entry of all_changes, and whether the except branch ran
update_repo(dir, fetched, failAt, fault) ==
    LET filters == load_filters(dir) IN
    IF filters.raised \/ fetched.raised
    THEN [dir |-> dir, changes |-> NoChanges, failed |-> TRUE]
    ELSE LET changes == detect_changes(dir, fetched.value).value
             saved == SaveAll(dir, IssuesToSave(changes), 1, failAt, fault)
         IN IF saved.raised
            THEN [dir |-> saved.dir, changes |-> NoChanges, failed |-> TRUE]
            ELSE [dir |-> saved.dir, changes |-> changes, failed |-> FALSE]

\* the lists fetch_issues returns in the update passes of the model
RECURSIVE StoreIssueLists(_)
StoreIssueLists(n) ==
    IF n = 0 THEN {<<>>}
    ELSE StoreIssueLists(n - 1) \cup
         {Append(l, i) : l \in {x \in StoreIssueLists(n - 1) : Len(x) = n - 1},
                         i \in StoreIssues}

\* fetch_issues returns the issues in the order of the API, here by number
FetchedLists ==
    {l \in StoreIssueLists(MaxList) :
        \A j, k \in DOMAIN l : j < k => l[j].number < l[k].number}

\* the update passes completed without error in a row, this one included
PassesAfter(failed) ==
    IF failed THEN 0
    ELSE IF last.op = "update" /\ last.result.passes < MaxPasses
         THEN last.result.passes + 1
    ELSE IF last.op = "update" THEN MaxPasses
    ELSE 1

\* cli.py 268, 275: the filters the pass hands to fetch_issues, None when
\* load_filters raised and nothing is fetched
FetchFilters(dir) ==
    IF load_filters(dir).raised THEN None ELSE load_filters(dir).value

\* one pass of update over the repository
UpdateRepo(repo, fetched, failAt, fault) ==
    /\ fault # "none" => faults < MaxFaults
    /\ failAt = 0 <=> fault = "none"
    /\ \E r \in {update_repo(fs[get_repo_dir(repo)], fetched, failAt, fault)} :
          /\ fault # "none" => r.failed
          /\ fs' = [fs EXCEPT ![get_repo_dir(repo)] = r.dir]
          /\ last' = [op |-> "update", repo |-> repo,
                      arg |-> IF fetched.raised THEN <<>> ELSE fetched.value,
                      raised |-> r.failed,
                      result |-> [changes |-> r.changes,
                                  passes |-> PassesAfter(r.failed),
                                  filters |-> FetchFilters(fs[get_repo_dir(repo)])],
                      again |-> ~fetched.raised /\ last.op = "update"
                                /\ ~last.raised /\ last.repo = repo
                                /\ last.arg = fetched.value]
    /\ faults' = IF fault # "none" THEN faults + 1 ELSE faults
    /\ UNCHANGED calls

\* the fetch fails, or it returns a list and every save succeeds
NextSync ==
    \/ \E repo \in Repos, l \in FetchedLists : UpdateRepo(repo, Returned(l), 0, "none")
    \/ \E repo \in Repos : UpdateRepo(repo, Raised, 0, "none")

SpecSync == Init /\ [][NextSync]_vars

\* ----------------------------------------------------------- update passes
\* the step is a pass of update that completed without error, with one issue
OnePass == last'.op = "update" /\ ~last'.raised /\ Len(last'.arg) = 1

\* the pass before this one completed without error for the same repository
AfterPass == last.op = "update" /\ ~last.raised /\ last.repo = last'.repo

\* the three passes of the scenario, with the literal texts of the two
\* descriptors given: on no prior store the issue is new and the store gets
\* exactly one entry; a pass with identical data finds it unchanged; after it
\* was closed it is updated, with the state and the timestamp descriptor
ScenarioStep(statePrefix, timePrefix) ==
    OnePass =>
       LET issue == last'.arg[1]
           changes == last'.result.changes
       IN /\ (~DirOf(last'.repo).meta.exists /\ DirOf(last'.repo).docs = EmptyDict) =>
                /\ changes = [new |-> <<issue>>, updated |-> <<>>, unchanged |-> <<>>]
                /\ DOMAIN IssuesOf(load_metadata(DirAfter(last'.repo)).value)
                      = {Str(issue.number)}
          /\ (AfterPass /\ last.arg = last'.arg) =>
                changes = [new |-> <<>>, updated |-> <<>>,
                           unchanged |-> <<issue.number>>]
          /\ (/\ AfterPass /\ Len(last.arg) = 1
              /\ last.arg[1].number = issue.number
              /\ last.arg[1].state = "open" /\ issue.state = "closed"
              /\ last.arg[1].updated_at # issue.updated_at) =>
                changes = [new |-> <<>>, unchanged |-> <<>>,
                           updated |-> <<[issue |-> issue,
                              changes |-> << <<statePrefix, "open", "' to '",
                                               "closed", "'">>,
                                             <<timePrefix, issue.updated_at>> >>]>>]

\* C12 as stated: the descriptors read "state changed from 'open' to
\* 'closed'" and "updated at <ts>"
C12_ScenarioAsStated == [][ScenarioStep("state changed from '", "updated at ")]_vars

\* C12: the scenario, with the descriptors "State changed from 'open' to
\* 'closed'" and "Updated at <ts>" as the tracker writes them
C12_Scenario == [][ScenarioStep("State changed from '", "Updated at ")]_vars

\* the third pass in a row on a store that update built: the closed issue is
\* reported as updated with two descriptors
C12_Witness ==
    /\ last.op = "update" /\ ~last.raised /\ last.result.passes >= 3
    /\ DirOf(last.repo).meta.exists
    /\ DirOf(last.repo).meta.content.flat = EmptyDict
    /\ Len(last.arg) = 1 /\ last.arg[1].state = "closed"
    /\ Len(last.result.changes.updated) = 1
    /\ Len(last.result.changes.updated[1].changes) = 2

\* ======================================================== get_deleted_issues
\* sorted(list(s)) of a set of integers
RECURSIVE SortedNumbers(_)
SortedNumbers(s) ==
    IF s = {} THEN <<>>
    ELSE LET m == CHOOSE x \in s : \A y \in s : x <= y
         IN <<m>> \o SortedNumbers(s \ {m})

\* a variant that does not take the current issues out of the stored ones
GetDeletedIssuesAllStored(dir, current_issues) ==
    LET metadata == load_metadata(dir) IN
    IF metadata.raised THEN Raised
    ELSE Returned(SortedNumbers({ParseInt(num) : num \in DOMAIN IssuesOf(metadata.value)}))

\* tracker.py 101-117
get_deleted_issues(dir, current_issues) ==
    LET metadata == load_metadata(dir) IN
    IF metadata.raised THEN Raised
    ELSE LET stored_issues == IssuesOf(metadata.value)
             stored_issue_numbers == {ParseInt(num) : num \in DOMAIN stored_issues}
             current_issue_numbers == {current_issues[k].number : k \in DOMAIN current_issues}
         IN Returned(SortedNumbers(stored_issue_numbers \ current_issue_numbers))

\* a variant that removes the documents of the issues it reports
GetDeletedIssuesRemoves(repo, current_issues) ==
    LET d == get_repo_dir(repo)
        r == get_deleted_issues(fs[d], current_issues)
        gone == IF r.raised THEN {}
                ELSE {IssueFileName(r.value[k]) : k \in DOMAIN r.value}
    IN /\ last.op = "none"
       /\ last' = [op |-> "get_deleted_issues", repo |-> repo,
                   arg |-> current_issues, raised |-> r.raised,
                   result |-> IF r.raised THEN None ELSE r.value,
                   again |-> FALSE]
       /\ fs' = [fs EXCEPT ![d].docs = [f \in DOMAIN fs[d].docs \ gone |-> fs[d].docs[f]]]
       /\ UNCHANGED <<faults, calls>>

GetDeletedIssues(repo, current_issues) ==
    LET r == get_deleted_issues(fs[get_repo_dir(repo)], current_issues)
    IN /\ last.op = "none"
       /\ last' = [op |-> "get_deleted_issues", repo |-> repo,
                   arg |-> current_issues, raised |-> r.raised,
                   result |-> IF r.raised THEN None ELSE r.value,
                   again |-> FALSE]
       /\ UNCHANGED <<fs, faults, calls>>

NextDeleted ==
    \E repo \in Repos, current_issues \in StoreIssueLists(MaxList) :
        GetDeletedIssues(repo, current_issues)

SpecDeleted == InitTracker /\ [][NextDeleted]_vars

\* ------------------------------------------------------------ deleted issues
DeletedReturned == last.op = "get_deleted_issues" /\ ~last.raised

\* the numbers that occur in a list of issue records
NumbersIn(l) == {l[k].number : k \in DOMAIN l}

\* C13: get_deleted_issues returns the numbers that have a Metadata Entry in
\* the store and do not occur in the current issue list, as integers in
\* strictly ascending order (so each once), whatever the order of the list
C13_DeletedIssues ==
    DeletedReturned =>
        /\ \A k \in DOMAIN last.result : last.result[k] \in Numbers
        /\ \A j, k \in DOMAIN last.result : j < k => last.result[j] < last.result[k]
        /\ {last.result[k] : k \in DOMAIN last.result}
             = {n \in Numbers : HasEntry(DirOf(last.repo), n)} \ NumbersIn(last.arg)

\* both numbers are stored, the current list holds one of them twice
C13_Witness ==
    /\ DeletedReturned
    /\ \A n \in {1, 2} : HasEntry(DirOf(last.repo), n)
    /\ Len(last.arg) = 2 /\ NumbersIn(last.arg) = {2}
    /\ last.result = <<1>>

\* ------------------------------------------------------------------ filters
SaveFiltersReturns == last'.op = "save_filters" /\ ~last'.raised

\* C14: after a save_filters that returns, load_filters returns exactly the
\* saved configuration, and the loaded Metadata Entries are the ones that
\* were loaded before the call
C14_SaveFiltersReplaces ==
    [][SaveFiltersReturns =>
          /\ load_filters(DirAfter(last'.repo)) = Returned(last'.arg)
          /\ ~load_metadata(DirOf(last'.repo)).raised
          /\ IssuesOf(load_metadata(DirAfter(last'.repo)).value)
               = IssuesOf(load_metadata(DirOf(last'.repo)).value)]_vars

\* a configuration without 'author' was saved over a store that has entries
C14_Witness ==
    /\ last.op = "save_filters" /\ ~last.raised
    /\ last.arg = [state |-> "open"]
    /\ load_filters(DirOf(last.repo)) = Returned([state |-> "open"])
    /\ \A n \in Numbers : HasEntry(DirOf(last.repo), n)

\* ------------------------------------------------------------ missing store
\* the last call was a load on a repository that has no metadata document
LoadedWithoutStore(op) == last.op = op /\ ~DirOf(last.repo).meta.exists

\* C15: without a metadata document load_metadata returns
\* {filters: {}, issues: {}} and load_filters returns the empty
\* configuration, and neither raises
C15_NoStoreLoadsEmpty ==
    /\ LoadedWithoutStore("load_metadata") =>
          /\ ~last.raised
          /\ last.result = [flat |-> EmptyDict, hasFilters |-> TRUE, filters |-> EmptyDict,
                            hasIssues |-> TRUE, issues |-> EmptyDict]
    /\ LoadedWithoutStore("load_filters") => ~last.raised /\ last.result = EmptyDict

C15_Witness ==
    /\ LoadedWithoutStore("load_filters")
    /\ DirOf(last.repo).docs = EmptyDict
    /\ last.result = EmptyDict

\* ============================================================ fingerprinting
\* a comment as _extract_issue_data builds it
Comment(author, body, created_at) ==
    [author |-> author, body |-> body, created_at |-> created_at,
     updated_at |-> created_at]

HashBase ==
    [Issue(1, "open", "2024-01-01T00:00:00", "Bug") EXCEPT
        !.assignees = <<"ann", "bob">>,
        !.comments = <<Comment("ann", "first", "2024-01-01T00:00:00"),
                       Comment("bob", "second", "2024-02-02T00:00:00")>>]

\* one field of the record of an issue, as another fetch may return it
Deviations ==
    {<<"title", "Fix">>, <<"body", "">>, <<"body", "more">>, <<"state", "closed">>,
     <<"labels", <<"bug", "ui">>>>, <<"labels", <<"ui">>>>, <<"labels", <<>>>>,
     <<"assignees", <<"bob", "ann">>>>, <<"assignees", <<"bob">>>>,
     <<"updated_at", "2024-02-02T00:00:00">>,
     <<"comments", <<HashBase.comments[2], HashBase.comments[1]>>>>,
     <<"comments", <<[HashBase.comments[1] EXCEPT !.author = "bob"], HashBase.comments[2]>>>>,
     <<"comments", <<[HashBase.comments[1] EXCEPT !.body = "edited"], HashBase.comments[2]>>>>,
     <<"comments", <<HashBase.comments[1],
                     [HashBase.comments[2] EXCEPT !.created_at = "2024-01-01T00:00:00"]>>>>,
     <<"comments", <<>>>>,
     <<"url", "https://github.com/a/b/issues/1">>,
     <<"milestone", "v1">>}

Deviate(r, d) == [r EXCEPT ![d[1]] = d[2]]

\* the records that differ from HashBase in at most two fields
HashRecords ==
    {HashBase} \cup {Deviate(HashBase, d) : d \in Deviations}
               \cup {Deviate(Deviate(HashBase, d), e) : d \in Deviations, e \in Deviations}

\* a dict without one of its keys
Without(r, f) == [k \in DOMAIN r \ {f} |-> r[k]]

\* records that lack one of body, labels, assignees, comments
IncompleteRecords ==
    {Without(HashBase, f) : f \in {"body", "labels", "assignees", "comments"}}

\* the keys storage.py 164-178 subscripts; a missing key raises KeyError
HashFields == {"number", "title", "body", "state", "labels", "assignees",
               "updated_at", "comments"}

CalculateHashCall(issue_data) ==
    IF HashFields \subseteq DOMAIN issue_data
    THEN Returned(_calculate_hash(issue_data))
    ELSE Raised

\* the store holds one record; it and a second record are hashed, and the
\* second record is classified against the store
InitHash ==
    /\ \E r \in HashRecords :
          /\ fs = [d \in Dirs |-> save_issue(EmptyDir, r, "none").dir]
          /\ last = [NoCall EXCEPT !.arg = r]
    /\ faults = 0
    /\ calls = [w \in Writers |-> Idle]

CalculateHash(repo, second) ==
    LET first == last.arg
        h == CalculateHashCall(second)
    IN /\ last.op = "none"
       /\ last' = [op |-> "calculate_hash", repo |-> repo,
                   arg |-> <<first, second>>, raised |-> h.raised,
                   result |-> IF h.raised THEN None
                              ELSE [first |-> CalculateHashCall(first).value,
                                    second |-> h.value,
                                    again |-> CalculateHashCall(second).value,
                                    changes |-> detect_changes(fs[get_repo_dir(repo)],
                                                               <<second>>).value],
                   again |-> FALSE]
       /\ UNCHANGED <<fs, faults, calls>>

NextHash ==
    \E repo \in Repos, second \in HashRecords \cup IncompleteRecords :
        CalculateHash(repo, second)

SpecHash == InitHash /\ [][NextHash]_vars

\* ------------------------------------------------------- fingerprint claims
Hashed == last.op = "calculate_hash" /\ ~last.raised

\* the two records agree on every field that is not in fields
SameExcept(r1, r2, fields) ==
    DOMAIN r1 = DOMAIN r2 /\ \A f \in DOMAIN r1 \ fields : r1[f] = r2[f]

Elements(s) == {s[k] : k \in DOMAIN s}

\* the two lists hold the same names, each as often, in any order
Reordered(s, t) ==
    /\ Len(s) = Len(t)
    /\ \A x \in Elements(s) \cup Elements(t) :
          Cardinality({k \in DOMAIN s : s[k] = x}) = Cardinality({k \in DOMAIN t : t[k] = x})

\* C16: hashing a record twice gives the same digest, and two records that
\* differ only in the order of their labels or of their assignees have the
\* same digest
C16_HashOrderInsensitive ==
    Hashed =>
        /\ last.result.again = last.result.second
        /\ (/\ SameExcept(last.arg[1], last.arg[2], {"labels", "assignees"})
            /\ Reordered(last.arg[1].labels, last.arg[2].labels)
            /\ Reordered(last.arg[1].assignees, last.arg[2].assignees))
           => last.result.first = last.result.second

\* labels and assignees both come in another order
C16_Witness ==
    /\ Hashed
    /\ SameExcept(last.arg[1], last.arg[2], {"labels", "assignees"})
    /\ last.arg[1].labels = <<"ui", "bug">> /\ last.arg[2].labels = <<"bug", "ui">>
    /\ last.arg[1].assignees = <<"bob", "ann">> /\ last.arg[2].assignees = <<"ann", "bob">>
    /\ last.result.first = last.result.second

\* the (author, body, created_at) of the comments, in their order
TrackedComments(r) ==
    [k \in DOMAIN r.comments |->
        <<r.comments[k].author, r.comments[k].body, r.comments[k].created_at>>]

\* the two records differ in a tracked field
TrackedFieldDiffers(r1, r2) ==
    \/ r1.title # r2.title \/ r1.body # r2.body \/ r1.state # r2.state
    \/ Elements(r1.labels) # Elements(r2.labels)
    \/ Elements(r1.assignees) # Elements(r2.assignees)
    \/ r1.updated_at # r2.updated_at
    \/ TrackedComments(r1) # TrackedComments(r2)

\* C17: two records that differ in title, body, state, the set of labels, the
\* set of assignees, updated_at, a comment's author, body or created_at, or
\* the order of the comments, have different digests
C17_HashSensitive ==
    (Hashed /\ TrackedFieldDiffers(last.arg[1], last.arg[2]))
        => last.result.first # last.result.second

\* the records differ in the order of their comments only
C17_Witness ==
    /\ Hashed
    /\ SameExcept(last.arg[1], last.arg[2], {"comments"})
    /\ Len(last.arg[1].comments) = 2
    /\ last.arg[2].comments = <<last.arg[1].comments[2], last.arg[1].comments[1]>>
    /\ last.arg[1].comments[1] # last.arg[1].comments[2]
    /\ last.result.first # last.result.second

\* C18: two records that differ only in url or milestone have the same
\* digest, and detect_changes classifies the second one as unchanged when the
\* first one is stored
C18_HashIgnoresExcluded ==
    (Hashed /\ SameExcept(last.arg[1], last.arg[2], {"url", "milestone"})) =>
        /\ last.result.first = last.result.second
        /\ last.result.changes = [new |-> <<>>, updated |-> <<>>,
                                  unchanged |-> <<last.arg[2].number>>]

\* url and milestone both differ
C18_Witness ==
    /\ Hashed
    /\ SameExcept(last.arg[1], last.arg[2], {"url", "milestone"})
    /\ last.arg[1].url # last.arg[2].url
    /\ last.arg[1].milestone # last.arg[2].milestone
    /\ last.result.changes.unchanged = <<last.arg[2].number>>

\* the record with "" or [] for the optional fields it lacks
Completed(r) ==
    [f \in DOMAIN r \cup {"body", "labels", "assignees", "comments"} |->
        IF f \in DOMAIN r THEN r[f] ELSE IF f = "body" THEN "" ELSE <<>>]

\* C19: _calculate_hash returns a digest for every record, and a record that
\* lacks body, labels, assignees or comments is hashed as if the field were
\* empty
C19_HashNeverRaises ==
    last.op = "calculate_hash" =>
        /\ ~last.raised
        /\ last.result.second = _calculate_hash(Completed(last.arg[2]))

\* ===================================================== cli.py update command
\* the repositories of the configuration; their directories differ
ConfiguredRepos == Repos \cup {<<"b", "/", "a">>}

\* the lists of repositories load_config may return
RepoLists ==
    {<<r>> : r \in ConfiguredRepos} \cup
    {l \in {<<r, s>> : r \in ConfiguredRepos, s \in ConfiguredRepos} : l[1] # l[2]}

\* cli.py 237-261: the command starts, all_changes = {}
BeginUpdate(repos) ==
    /\ calls["w1"] = Idle /\ last.op = "none"
    /\ calls' = [calls EXCEPT !["w1"] =
                    [pc |-> "loop", op |-> "update", repos |-> repos, k |-> 1,
                     all_changes |-> EmptyDict, failed |-> {}]]
    /\ UNCHANGED <<fs, last, faults>>

\* cli.py 263-319: one iteration of the loop over repos
UpdateNextRepo(fetched, failAt, fault) ==
    LET c == calls["w1"] IN
    /\ c.pc = "loop" /\ c.k <= Len(c.repos)
    /\ fault # "none" => faults < MaxFaults
    /\ failAt = 0 <=> fault = "none"
    /\ \E r \in {update_repo(fs[get_repo_dir(c.repos[c.k])], fetched, failAt, fault)} :
          /\ fault # "none" => r.failed
          /\ fs' = [fs EXCEPT ![get_repo_dir(c.repos[c.k])] = r.dir]
          /\ calls' = [calls EXCEPT !["w1"] =
                          [c EXCEPT !.k = c.k + 1,
                                    !.all_changes = DictSet(c.all_changes, c.repos[c.k], r.changes),
                                    !.failed = IF r.failed THEN c.failed \cup {c.repos[c.k]}
                                               ELSE c.failed]]
          /\ last' = [op |-> "update", repo |-> c.repos[c.k],
                      arg |-> IF fetched.raised THEN <<>> ELSE fetched.value,
                      raised |-> r.failed,
                      result |-> [changes |-> r.changes, passes |-> 0],
                      again |-> FALSE]
    /\ faults' = IF fault # "none" THEN faults + 1 ELSE faults

\* cli.py 321-328: the loop is over, all_changes goes to the reporter
GenerateReport ==
    LET c == calls["w1"] IN
    /\ c.pc = "loop" /\ c.k > Len(c.repos)
    /\ calls' = [calls EXCEPT !["w1"] = [c EXCEPT !.pc = "report"]]
    /\ last' = [op |-> "generate_report", repo |-> <<>>, arg |-> c.all_changes,
                raised |-> FALSE, result |-> None, again |-> FALSE]
    /\ UNCHANGED <<fs, faults>>

InitUpdate ==
    /\ fs \in [{get_repo_dir(r) : r \in ConfiguredRepos} ->
                  InitialDirs \cup {[EmptyDir EXCEPT !.meta = Truncated]}]
    /\ last = NoCall
    /\ faults = 0
    /\ calls = [w \in Writers |-> Idle]

NextUpdate ==
    \/ \E repos \in RepoLists : BeginUpdate(repos)
    \/ \E l \in FetchedLists : UpdateNextRepo(Returned(l), 0, "none")
    \/ \E l \in FetchedLists, fault \in Faults \ {"none"} : UpdateNextRepo(Returned(l), 1, fault)
    \/ UpdateNextRepo(Raised, 0, "none")
    \/ GenerateReport

SpecUpdate == InitUpdate /\ [][NextUpdate]_vars

\* ------------------------------------------------------------ update command
\* C20: every iteration of the update loop processes the next repository of
\* the list, leaves the directories and the entries of the other repositories
\* as they are, and gives the repository an entry, the empty classification
\* if it failed; the reporter gets all_changes after the last repository, with
\* an entry for every repository of the list, empty for those that failed
C20_UpdateIsolation ==
    [][LET c == calls["w1"]
           d == calls'["w1"]
       IN /\ (c.pc = "loop" /\ d.pc = "loop") =>
                /\ d.k = c.k + 1 /\ c.k <= Len(c.repos)
                /\ last'.op = "update" /\ last'.repo = c.repos[c.k]
                /\ \A other \in ConfiguredRepos \ {c.repos[c.k]} :
                      /\ fs'[get_repo_dir(other)] = fs[get_repo_dir(other)]
                      /\ other \in DOMAIN c.all_changes =>
                            /\ other \in DOMAIN d.all_changes
                            /\ d.all_changes[other] = c.all_changes[other]
                /\ c.repos[c.k] \in DOMAIN d.all_changes
                /\ last'.raised => d.all_changes[c.repos[c.k]] = NoChanges
          /\ d.pc = "report" =>
                /\ c.k = Len(c.repos) + 1
                /\ last'.arg = c.all_changes
                /\ DOMAIN c.all_changes = {c.repos[k] : k \in DOMAIN c.repos}
                /\ \A r \in c.failed : c.all_changes[r] = NoChanges]_vars

\* the first of two repositories failed while saving, the second one got new
\* issues, and the report was generated
C20_Witness ==
    /\ calls["w1"].pc = "report"
    /\ Len(calls["w1"].repos) = 2
    /\ calls["w1"].failed = {calls["w1"].repos[1]}
    /\ fs[get_repo_dir(calls["w1"].repos[1])].docs # EmptyDict
    /\ faults > 0
    /\ calls["w1"].all_changes[calls["w1"].repos[2]].new # <<>>

\* ================================================= malformed metadata document
\* stores whose .metadata.json does not parse, without and with documents
MalformedDirs ==
    {[EmptyDir EXCEPT !.meta = Truncated]} \cup
    {[save_issue(EmptyDir, i, "none").dir EXCEPT !.meta = Truncated] : i \in StoreIssues}

InitMalformed ==
    /\ fs \in [Dirs -> InitialDirs \cup MalformedDirs]
    /\ last = NoCall
    /\ faults = 0
    /\ calls = [w \in Writers |-> Idle]

NextMalformed ==
    \/ \E repo \in Repos, issue \in StoreIssues : SaveIssue(repo, issue, "none")
    \/ \E repo \in Repos, filters \in FilterConfigs : SaveFilters(repo, filters, "none")
    \/ \E repo \in Repos : LoadMetadata(repo)
    \/ \E repo \in Repos : LoadFilters(repo)
    \/ \E repo \in Repos, l \in StoreIssueLists(MaxList) : DetectChanges(repo, l)
    \/ \E repo \in Repos, l \in StoreIssueLists(MaxList) : GetDeletedIssues(repo, l)

SpecMalformed == InitMalformed /\ [][NextMalformed]_vars

\* ---------------------------------------------------------- malformed store
Malformed(dir) == dir.meta.exists /\ ~dir.meta.complete

StoreOperations == {"load_metadata", "load_filters", "save_filters", "save_issue",
                    "detect_changes", "get_deleted_issues"}

\* C21: on a repository whose metadata document does not parse, each of
\* load_metadata, load_filters, save_filters, save_issue, detect_changes and
\* get_deleted_issues raises, and the malformed document is left as it is
C21_MalformedRaises ==
    [][(last'.op \in StoreOperations /\ Malformed(DirOf(last'.repo))) =>
          /\ last'.raised
          /\ last'.result = None
          /\ DirAfter(last'.repo).meta = DirOf(last'.repo).meta]_vars

\* save_issue raised on a malformed store after it wrote the issue document
C21_Witness ==
    /\ last.op = "save_issue" /\ last.raised
    /\ Malformed(DirOf(last.repo))
    /\ issue_exists(DirOf(last.repo), last.arg.number)

\* ======================================================== cli.py run command
\* a variant that stores the chosen filters also when they are empty
RunRepoAlwaysSaves(dir, filters, fetched, failAt, fault) ==
    IF fetched.raised THEN [dir |-> dir, failed |-> TRUE, saved |-> FALSE]
    ELSE LET f == save_filters(dir, filters, "none") IN
         IF f.raised THEN [dir |-> f.dir, failed |-> TRUE, saved |-> FALSE]
         ELSE LET s == SaveAll(f.dir, fetched.value, 1, failAt, fault)
              IN [dir |-> s.dir, failed |-> s.raised, saved |-> filters # EmptyDict]

\* cli.py 189-212: the body of the loop of run for one repository; saved
\* tells whether save_filters was called and returned
run_repo(dir, filters, fetched, failAt, fault) ==
    IF fetched.raised THEN [dir |-> dir, failed |-> TRUE, saved |-> FALSE]
    ELSE LET f == IF filters # EmptyDict THEN save_filters(dir, filters, "none")
                  ELSE [dir |-> dir, raised |-> FALSE] IN
         IF f.raised THEN [dir |-> f.dir, failed |-> TRUE, saved |-> FALSE]
         ELSE LET s == SaveAll(f.dir, fetched.value, 1, failAt, fault)
              IN [dir |-> s.dir, failed |-> s.raised, saved |-> filters # EmptyDict]

\* one run over the repository with the filters the user chose
RunRepo(repo, filters, fetched) ==
    \E r \in {run_repo(fs[get_repo_dir(repo)], filters, fetched, 0, "none")} :
       /\ fs' = [fs EXCEPT ![get_repo_dir(repo)] = r.dir]
       /\ last' = [op |-> "run", repo |-> repo, arg |-> filters, raised |-> r.failed,
                   result |-> [filters |-> filters, saved |-> r.saved,
                               before |-> FetchFilters(fs[get_repo_dir(repo)]),
                               fetched |-> IF fetched.raised THEN None ELSE fetched.value],
                   again |-> FALSE]
       /\ UNCHANGED <<faults, calls>>

\* the lists of at most one issue that fetch_issues may return
ShortLists == {l \in FetchedLists : Len(l) <= 1}

\* runs, update passes and direct storage calls on one repository
NextFilters ==
    \/ \E repo \in Repos, filters \in FilterConfigs, l \in ShortLists :
          RunRepo(repo, filters, Returned(l))
    \/ \E repo \in Repos, filters \in FilterConfigs : RunRepo(repo, filters, Raised)
    \/ \E repo \in Repos, l \in ShortLists : UpdateRepo(repo, Returned(l), 0, "none")
    \/ \E repo \in Repos : UpdateRepo(repo, Raised, 0, "none")
    \/ \E repo \in Repos, filters \in FilterConfigs : SaveFilters(repo, filters, "none")
    \/ \E repo \in Repos, issue \in StoreIssues : SaveIssue(repo, issue, "none")

SpecFilters == Init /\ [][NextFilters]_vars

\* ------------------------------------------------------- filters over passes
\* the Filter Configuration the store of the repository holds
StoredFilters(dir) == load_filters(dir).value
Readable(dir) == ~load_filters(dir).raised

\* C22: the stored Filter Configuration is empty before anything was saved,
\* it is the argument of a save_filters that returned, no save_issue and no
\* update pass changes it, and an update pass hands exactly the stored
\* configuration to fetch_issues
C22_FiltersReapplied ==
    [][/\ last.op = "none" =>
             \A r \in Repos : Readable(DirOf(r)) /\ StoredFilters(DirOf(r)) = EmptyDict
       /\ (last'.op = "save_filters" /\ ~last'.raised) =>
             Readable(DirAfter(last'.repo)) /\ StoredFilters(DirAfter(last'.repo)) = last'.arg
       /\ (last'.op = "run" /\ last'.result.saved) =>
             Readable(DirAfter(last'.repo)) /\ StoredFilters(DirAfter(last'.repo)) = last'.arg
       /\ (/\ last'.op \in {"save_issue", "update"} \/ (last'.op = "run" /\ ~last'.result.saved)
           /\ Readable(DirOf(last'.repo)) /\ Readable(DirAfter(last'.repo))) =>
             StoredFilters(DirAfter(last'.repo)) = StoredFilters(DirOf(last'.repo))
       /\ (last'.op = "update" /\ Readable(DirOf(last'.repo))) =>
             last'.result.filters = StoredFilters(DirOf(last'.repo))]_vars

\* an update pass that saved an issue fetched with stored, non-empty filters,
\* and the filters are still stored
C22_Witness ==
    /\ last.op = "update" /\ ~last.raised
    /\ last.result.filters = [author |-> "ann", state |-> "closed"]
    /\ Len(last.result.changes.new) + Len(last.result.changes.updated) > 0
    /\ StoredFilters(DirOf(last.repo)) = last.result.filters

\* every issue of the list has its document and its Metadata Entry
AllSaved(dir, issues) ==
    \A k \in DOMAIN issues :
        /\ HasEntry(dir, issues[k].number)
        /\ DocumentOf(dir, issues[k].number) = WholeFile(_generate_markdown(issues[k]))

Days == 1..MaxDay

\* hours of the day at which an issue is created: midnight and noon
TimesOfDay == {0, 12}

\* a datetime is <<day, hour>>
Later(a, b) == a[1] > b[1] \/ (a[1] = b[1] /\ a[2] > b[2])

\* the strings a date filter may hold: 'YYYY-MM-DD', text that is no date, ''
DateString(d) == <<"date", d>>
DateStrings == {DateString(d) : d \in Days} \cup {<<"bad">>, <<>>}

\* datetime.fromisoformat on a date string: midnight of the day, naive;
\* ValueError on other text
fromisoformat(x) == IF Len(x) = 2 THEN Returned(<<x[2], 0>>) ELSE Raised

\* the filter dictionaries with and without 'since' and 'until'
DateFilters ==
    {EmptyDict} \cup {[until |-> u] : u \in DateStrings}
                \cup {[since |-> DateString(d)] : d \in Days}
                \cup {[since |-> DateString(d), until |-> u] : d \in Days, u \in DateStrings}

\* created_at of the issue objects: PyGithub gives naive or timezone-aware
\* datetimes, depending on its version
ApiIssues == [created_at : Days \X TimesOfDay, aware : BOOLEAN]

\* github_client.py 252-273; comparing an aware with a naive datetime raises
\* TypeError, which is not caught
_matches_client_filters(issue, filters) ==
    IF "until" \in DOMAIN filters /\ Len(filters.until) > 0
    THEN LET until_date == fromisoformat(filters.until) IN
         IF until_date.raised THEN Returned(TRUE)
         ELSE IF issue.aware THEN Raised
         ELSE IF Later(issue.created_at, until_date.value) THEN Returned(FALSE)
         ELSE Returned(TRUE)
    ELSE Returned(TRUE)

InitMatch ==
    /\ fs = [d \in Dirs |-> EmptyDir]
    /\ \E filters \in DateFilters : last = [NoCall EXCEPT !.arg = filters]
    /\ faults = 0
    /\ calls = [w \in Writers |-> Idle]

MatchesClientFilters(issue) ==
    LET r == _matches_client_filters(issue, last.arg)
    IN /\ last.op = "none"
       /\ last' = [op |-> "_matches_client_filters", repo |-> <<>>,
                   arg |-> [issue |-> issue, filters |-> last.arg],
                   raised |-> r.raised,
                   result |-> IF r.raised THEN None ELSE r.value,
                   again |-> FALSE]
       /\ UNCHANGED <<fs, faults, calls>>

NextMatch == \E issue \in ApiIssues : MatchesClientFilters(issue)

SpecMatch == InitMatch /\ [][NextMatch]_vars

\* -------------------------------------------------------------- until filter
\* C23: with until set to the date D, _matches_client_filters keeps the
\* issues created on day D or earlier, at any time of the day, and rejects
\* those created after D, with or without a since filter
C23_UntilInclusive ==
    (/\ last.op = "_matches_client_filters"
     /\ "until" \in DOMAIN last.arg.filters
     /\ Len(last.arg.filters.until) = 2
     /\ ~last.raised) =>
        last.result = (last.arg.issue.created_at[1] <= last.arg.filters.until[2])

\* ---------------------------------------------------------- tracker is read-only
\* C24: detect_changes and get_deleted_issues leave the metadata document
\* (entries and filters) and the issue documents of every repository as they
\* are; an issue reported as deleted keeps its document and its entry
C24_TrackerReadOnly ==
    [][last'.op \in {"detect_changes", "get_deleted_issues"} => fs' = fs]_vars

\* an issue was reported as deleted, and its document and entry are there
C24_Witness ==
    /\ last.op = "get_deleted_issues" /\ ~last.raised
    /\ Len(last.result) > 0
    /\ \A k \in DOMAIN last.result :
          /\ issue_exists(DirOf(last.repo), last.result[k])
          /\ HasEntry(DirOf(last.repo), last.result[k])

\* ============================================ two writers on one repository
\* the other writer
Other(w) == CHOOSE v \in Writers : v # w

\* the issues a writer saves: w1 saves issue 1, w2 the other issues
IssuesOfWriter(w) ==
    {i \in StoreIssues : IF w = "w1" THEN i.number = 1 ELSE i.number # 1}

\* save_issue is entered while the other writer may be in a call of its own
BeginRacing(w, repo, issue) ==
    LET v == Other(w) IN
    /\ calls[w].pc = "idle"
    /\ calls' = [calls EXCEPT
                    ![w] = [Idle EXCEPT !.pc = "open_doc", !.op = "save_issue",
                                        !.repo = repo, !.arg = issue,
                                        !.overlapped = calls[v].pc # "idle"],
                    ![v].overlapped = calls[v].overlapped \/ calls[v].pc # "idle"]
    /\ UNCHANGED <<fs, last, faults>>

RacingStep(w) ==
    \/ \E repo \in Repos, issue \in IssuesOfWriter(w) : BeginRacing(w, repo, issue)
    \/ OpenDocument(w)
    \/ WriteDocument(w)
    \/ LoadForUpdate(w)
    \/ OpenMetadata(w)
    \/ DumpMetadata(w)

NextRace == \E w \in Writers : RacingStep(w)

SpecRace == Init /\ [][NextRace]_vars

\* ---------------------------------------------------------------- lost update
\* both writers are idle and the last save_issue of each returned
BothReturned ==
    \A w \in Writers : calls[w].pc = "idle" /\ Len(calls[w].returned) = 1

\* the store of the repository holds the entry of the writer's issue
HoldsEntryOf(w) ==
    LET issue == calls[w].returned[1]
        meta == load_metadata(DirOf(last.repo))
    IN /\ ~meta.raised
       /\ Str(issue.number) \in DOMAIN IssuesOf(meta.value)
       /\ IssuesOf(meta.value)[Str(issue.number)] = ExpectedEntry(issue)

\* C25: when two save_issue calls for different issues of a repository ran
\* one after the other and both returned, the store holds both entries (the
\* lost update is the state of the witness)
C25_SequentialKeepsBoth ==
    (BothReturned /\ \A w \in Writers : ~calls[w].overlapped) =>
        \A w \in Writers : HoldsEntryOf(w)

\* the two calls interleaved, both returned, and the store holds the entry
\* of only one of them
C25_Witness ==
    /\ BothReturned
    /\ \A w \in Writers : calls[w].overlapped
    /\ calls["w1"].returned[1].number # calls["w2"].returned[1].number
    /\ ~HoldsEntryOf("w1")
    /\ HoldsEntryOf("w2")
    /\ ~HasEntry(DirOf(last.repo), calls["w1"].returned[1].number)

\* ----------------------------------------------------------------- fixed point
\* the step is a pass over the list of the pass before it, which completed
\* without error on the same repository
SecondPass == last'.op = "update" /\ last'.again /\ ~last'.raised

\* C26: a pass of update over the list of the completed pass before it
\* classifies every issue as unchanged, has no new and no updated issue, and
\* writes no document and no metadata
C26_FixedPoint ==
    [][SecondPass =>
          /\ last'.result.changes.new = <<>>
          /\ last'.result.changes.updated = <<>>
          /\ last'.result.changes.unchanged = [k \in DOMAIN last'.arg |-> last'.arg[k].number]
          /\ fs' = fs]_vars

\* ------------------------------------------------------- reported and persisted
\* the numbers in the new and updated buckets of a classification
ReportedNumbers(c) ==
    {c.new[k].number : k \in DOMAIN c.new}
      \cup {c.updated[k].issue.number : k \in DOMAIN c.updated}

\* the Metadata Entry of issue n, if the store has one
EntryOf(dir, n) ==
    IF HasEntry(dir, n) THEN <<IssuesOf(load_metadata(dir).value)[Str(n)]>> ELSE <<>>

\* the pass wrote the document of issue n, or its Metadata Entry
Written(before, after, n) ==
    \/ DocumentOf(before, n) # DocumentOf(after, n)
    \/ HasEntry(after, n) /\ EntryOf(before, n) # EntryOf(after, n)

\* C27: every issue whose document or Metadata Entry a pass of update wrote
\* is in the new or the updated bucket of the entry the pass leaves in
\* all_changes, also when the pass failed while saving
C27_PersistedIsReported ==
    [][(calls["w1"].pc = "loop" /\ calls'["w1"].pc = "loop") =>
          \A n \in Numbers :
              Written(DirOf(last'.repo), DirAfter(last'.repo), n)
                 => n \in ReportedNumbers(calls'["w1"].all_changes[last'.repo])]_vars

\* ------------------------------------------------- unchanged means same state
\* C28: an issue that detect_changes classifies as unchanged has the state
\* and the updated_at of its stored Metadata Entry, and an issue whose state
\* or updated_at differs from the stored entry is classified as updated
C28_UnchangedSameState ==
    Detected =>
        \A k \in DOMAIN last.arg :
            LET issue == last.arg[k]
                key == Str(issue.number)
                stored == LoadedIssues(last.repo)
            IN key \in DOMAIN stored =>
                 /\ InUnchanged(issue.number, last.result) = 1 =>
                       /\ stored[key].state = issue.state
                       /\ stored[key].updated_at = issue.updated_at
                 /\ (stored[key].state # issue.state
                       \/ stored[key].updated_at # issue.updated_at) =>
                       InUpdated(issue.number, last.result) = 1

\* on a store that save_issue wrote, an issue with an entry is unchanged
C28_Witness ==
    /\ Detected /\ CurrentFormat(DirOf(last.repo))
    /\ \E k \in DOMAIN last.arg :
          /\ Str(last.arg[k].number) \in DOMAIN LoadedIssues(last.repo)
          /\ InUnchanged(last.arg[k].number, last.result) = 1

====
